---- MODULE Spec2Model ----
(***************************************************************************)
(* RestoreManager of mass_undelete.py: the restore workers gated by an     *)
(* asyncio.Semaphore, the controller task adjust_concurrency that retunes  *)
(* current_concurrency and replaces the semaphore, the sliding error       *)
(* window, and the sequential batch loop of run_async / process_batch.     *)
(*                                                                         *)
(* Time is the wall clock time.time() in whole seconds.  Workers of one    *)
(* batch are counted, not named: they run the same code and are told apart *)
(* only by the batch they belong to and the semaphore they entered.        *)
(* An error is the set of signature substrings its text str(e) contains.   *)
(***************************************************************************)
EXTENDS Integers, Sequences, FiniteSets, TLC

\* ------------------------------------------------------------ bounds
\* size of the listing returned by list_deleted_paths in Spec
NumItems == 306
\* size of the listing in SpecLong
NumItemsLong == 2
\* seconds the clock may advance in Spec / in SpecLong
MaxTime == 2
MaxTimeLong == 11
\* restore calls that raise, over one run
MaxFaults == 1
\* completed tasks process_batch has not yet consumed
MaxLag == 1

\* the window: a few items whose calls may all fail, over a window_duration
NumItemsWindow == 2
MaxFaultsWindow == 2
MaxTimeWindow == 11

\* recovery: a run long enough for the ceiling to fall to min_concurrency,
\* wait for the window to empty and climb to max_concurrency
NumItemsRecovery == 2
MaxFaultsRecovery == 1
MaxTimeRecovery == 36

\* planning: listings of up to PlanMaxLen items at depths 1..MaxDepth, and
\* listings of about PlanLargeLen items, where the batch size is capped
PlanMaxLen == 40
PlanLargeLen == 3001
MaxDepth == 3

\* dispatch: whole runs, shorter than a second, on listings of up to
\* DispatchMaxLen items
DispatchMaxLen == 31

\* tallies: whole runs, shorter than a second, in which any call may fail
NumItemsTally == 12

\* many failures: a run in which any call may fail, up to MaxServerFaulty of
\* them with a server error, with a tick of the controller
NumItemsFaulty == 11
MaxTimeFaulty == 1
MaxServerFaulty == 1

\* outage: a run, shorter than a second, of more items than the window
\* holds, in which every call fails, with a server error but for up to
\* MaxOtherOutage of the failures in the window
NumItemsOutage == 101

\* fairness: the seconds a fair run of NumItems items may take
MaxTimeFair == 1
MaxOtherOutage == 1
\* the wall clock at construction (seconds since the epoch, any value above
\* recovery_interval: last_error_time starts at 0)
StartTime == 20

\* ------------------------------------------------- program constants
initial_concurrency == 100
min_concurrency == 10
max_concurrency == 600
error_window_maxlen == 100
window_duration == 10
\* backoff_factor 0.5 and recovery_factor 1.2, in tenths
backoff_factor_x10 == 5
recovery_factor_x10 == 12
recovery_interval == 5
\* asyncio.sleep(1) and the debounce of one second
adjust_period == 1
batch_size_min == 10
batch_size_max == 1000
batch_divisor == 3

VARIABLES
    now,                  \* time.time()
    deleted_items,        \* the listing, each item its place in it and its
                          \* depth; <<>> in the specifications that carry
                          \* only its length
    batches,              \* run_async: the slices of the sorted listing
    total_items,          \* len(deleted_items)
    pc,                   \* run_async: "start", "batches", "done"
    batch_num,            \* run_async: the batch being processed (1-based)
    tasks,                \* per dispatched batch, its restore_item tasks
    adjustment_task,      \* "none", "running", "cancelled"
    sems,                 \* every asyncio.Semaphore created so far
    sem,                  \* self.sem: index into sems
    current_concurrency,
    last_adjustment,
    last_error_time,
    error_window,         \* deque of <<timestamp, is_5xx>>
    restored_count,
    failed_count,
    faults                \* restore calls that raised so far (the service)

vars == <<now, deleted_items, batches, total_items, pc, batch_num, tasks, adjustment_task, sems, sem,
          current_concurrency, last_adjustment, last_error_time, error_window,
          restored_count, failed_count, faults>>

\* ----------------------------------------------------------- helpers
Min(a, b) == IF a <= b THEN a ELSE b
Max(a, b) == IF a >= b THEN a ELSE b

\* is_5xx_error: the substrings searched for in str(e)
error_patterns ==
    {"500 Server Error", "502 Bad Gateway", "503 Service Unavailable",
     "504 Gateway Timeout", "ServerBusy", "ThrottlingError"}

\* (a slip: only the status texts are searched for)
is_5xx_error_status_only(e) ==
    e \cap {"500 Server Error", "502 Bad Gateway", "503 Service Unavailable",
            "504 Gateway Timeout"} # {}
\* (a slip: every failure is taken for a server error)
is_5xx_error_any(e) == TRUE
is_5xx_error(e) == e \cap error_patterns # {}

\* (a slip: the conflict signature is not looked for)
is_counted_failure_all(e) == TRUE
\* restore_item, line 127: "BlobAlreadyExists" not in error_str
is_counted_failure(e) == "BlobAlreadyExists" \notin e

\* the errors the remote call is taken to raise: a conflict, a server-busy
\* error, an error with no known signature, a conflict whose text also
\* carries a server signature
RestoreErrors ==
    {{"BlobAlreadyExists"}, {"ServerBusy"}, {},
     {"BlobAlreadyExists", "503 Service Unavailable"}}

\* (a slip: the deque has no maxlen)
deque_append_unbounded(w, ev) == Append(w, ev)
\* deque(maxlen=100).append
deque_append(w, ev) ==
    IF Len(w) >= error_window_maxlen THEN Append(Tail(w), ev) ELSE Append(w, ev)

\* get_error_rate, lines 67-68: drop from the left while the head is too old
RECURSIVE popleft_while_old(_, _)
popleft_while_old(w, t) ==
    IF w # <<>> /\ (t - w[1][1]) > window_duration
    THEN popleft_while_old(Tail(w), t)
    ELSE w

\* (a slip: nothing is dropped)
clean_old_keep(w, t) == w
clean_old(w, t) == popleft_while_old(w, t)

\* (a slip: every recent event is counted, a server error or not)
recent_errors_any(w, t) ==
    Cardinality({i \in 1..Len(w) : (t - w[i][1]) <= window_duration})
\* get_error_rate, lines 74-75: the 5xx events of w that are recent at t
recent_errors(w, t) ==
    Cardinality({i \in 1..Len(w) : w[i][2] /\ (t - w[i][1]) <= window_duration})

\* get_error_rate's result on window w at time t, as <<numerator, denominator>>
\* (<<0, 0>> is the 0.0 of the empty window)
get_error_rate(w, t) ==
    LET c == clean_old(w, t)
    IN  IF c = <<>> THEN <<0, 0>> ELSE <<recent_errors(c, t), Len(c)>>

\* error_rate > 0.1
rate_above_threshold(r) == 10 * r[1] > r[2]

\* (a slip: the floor min_concurrency is not applied)
backoff_unclamped(c) == (c * backoff_factor_x10) \div 10
\* adjust_concurrency, lines 91-94: max(int(c * 0.5), min_concurrency)
backoff(c) == Max((c * backoff_factor_x10) \div 10, min_concurrency)

\* (a slip: the cap max_concurrency is not applied)
recover_unclamped(c) == (c * recovery_factor_x10) \div 10
\* (a slip: the product is rounded up)
recover_ceil(c) == Min((c * recovery_factor_x10 + 9) \div 10, max_concurrency)
\* adjust_concurrency, lines 102-105: min(int(c * 1.2), max_concurrency);
\* int(c * 1.2) is floor(12 c / 10) for every c up to max_concurrency
recover(c) == Min((c * recovery_factor_x10) \div 10, max_concurrency)

\* run_async, line 189
batch_size(n) == Min(batch_size_max, Max(batch_size_min, n \div batch_divisor))

\* (a slip: the short last slice is not counted)
num_batches_floor(n) == n \div batch_size(n)
\* run_async, lines 190-191: the number of slices and the length of slice k
num_batches(n) == (n + batch_size(n) - 1) \div batch_size(n)
batch_len(n, k) == Min(batch_size(n), n - (k - 1) * batch_size(n))

\* run_async, line 185: list.sort(key=depth); the sort is stable, so the
\* result is the items of depth d in listing order, for d in ascending order
RECURSIVE by_depth_from(_, _, _)
by_depth_from(s, d, top) ==
    IF d > top THEN <<>>
    ELSE SelectSeq(s, LAMBDA x : x.depth = d) \o by_depth_from(s, d + 1, top)

\* (a slip: the listing order is kept)
sort_by_depth_not(s) == s
sort_by_depth(s) ==
    IF s = <<>> THEN <<>>
    ELSE LET depths == {s[i].depth : i \in 1..Len(s)}
             least == CHOOSE d \in depths : \A o \in depths : d <= o
             most == CHOOSE d \in depths : \A o \in depths : o <= d
         IN  by_depth_from(s, least, most)

\* range(i, n, step), 0-based as in the code
RECURSIVE range_from(_, _, _)
range_from(i, n, step) ==
    IF i >= n THEN <<>> ELSE <<i>> \o range_from(i + step, n, step)

\* the slice s[i : j] of Python (0-based, j excluded, cut at the end of s)
py_slice(s, i, j) == SubSeq(s, i + 1, Min(j, Len(s)))

\* (a slip: only the full slices are cut, the short last one is left out)
slice_batches_full(s) ==
    LET starts == range_from(0, Len(s) - batch_size(Len(s)) + 1,
                             batch_size(Len(s)))
        cut == [k \in 1..Len(starts) |->
                  py_slice(s, starts[k], starts[k] + batch_size(Len(s)))]
    IN  IF cut = <<>> /\ s # <<>> THEN <<s>> ELSE cut
\* run_async, lines 187-194: the batches of the sorted listing
slice_batches(s) ==
    LET starts == range_from(0, Len(s), batch_size(Len(s)))
        cut == [k \in 1..Len(starts) |->
                  py_slice(s, starts[k], starts[k] + batch_size(Len(s)))]
    IN  IF cut = <<>> /\ s # <<>> THEN <<s>> ELSE cut

\* (a slip: process_batch returns with the first completed task)
batch_finished_first(t) == t.awaited >= 1
\* process_batch, lines 145-146: every task of the batch has been awaited
batch_finished(t) == t.awaited = t.size

\* (a slip: the slot goes back to whatever self.sem is at the time)
release_target_current(k) == sem
\* the semaphore a worker of batch k releases: the one it entered
\* (async with self.sem evaluates self.sem once, line 114)
release_target(k) == tasks[k].sem

\* (a slip: the tasks do not wait for a slot)
entering_all(n, free) == n
\* restore_item, line 114: of n tasks that reach async with self.sem one after
\* the other, those that find one of the free slots enter, the rest wait
entering(n, free) == Min(n, free)

\* ------------------------------------------------------------- Init
\* the state of a run_async about to list, but for the listing
InitManager ==
    /\ now = StartTime
    /\ batches = <<>>
    /\ pc = "start"
    /\ batch_num = 0
    /\ tasks = <<>>
    /\ adjustment_task = "none"
    /\ sems = <<[cap |-> initial_concurrency, value |-> initial_concurrency]>>
    /\ sem = 1
    /\ current_concurrency = initial_concurrency
    /\ last_adjustment = StartTime
    /\ last_error_time = 0
    /\ error_window = <<>>
    /\ restored_count = 0
    /\ failed_count = 0
    /\ faults = 0

\* a run whose listing is carried by its length only
InitWith(items) ==
    /\ deleted_items = <<>>
    /\ total_items \in items
    /\ InitManager

\* a run whose listing is one of listings
InitListing(listings) ==
    /\ deleted_items \in listings
    /\ total_items = Len(deleted_items)
    /\ InitManager

Init == InitWith({0, NumItems})
InitLong == InitWith({0, NumItemsLong})

\* ---------------------------------------------------------- actions
\* the clock advances
AdvanceTime(horizon) ==
    /\ now < StartTime + horizon
    /\ now' = now + 1
    /\ UNCHANGED <<deleted_items, batches, total_items, pc, batch_num, tasks,
                   adjustment_task, sems, sem, current_concurrency,
                   last_adjustment, last_error_time, error_window,
                   restored_count, failed_count, faults>>

\* run_async, lines 181-183: nothing listed
RunEmpty ==
    /\ pc = "start"
    /\ total_items = 0
    /\ pc' = "done"
    /\ UNCHANGED <<now, deleted_items, batches, total_items, batch_num, tasks,
                   adjustment_task, sems, sem, current_concurrency,
                   last_adjustment, last_error_time, error_window,
                   restored_count, failed_count, faults>>

\* run_async, lines 185-203: sort, slice, start the controller, enter the loop
RunStart ==
    /\ pc = "start"
    /\ total_items > 0
    /\ pc' = "batches"
    /\ batch_num' = 1
    /\ adjustment_task' = "running"
    /\ deleted_items' = sort_by_depth(deleted_items)
    /\ batches' = slice_batches(sort_by_depth(deleted_items))
    /\ UNCHANGED <<now, total_items, tasks, sems, sem, current_concurrency,
                   last_adjustment, last_error_time, error_window,
                   restored_count, failed_count, faults>>

\* process_batch, lines 140-143, and the first step of every task it created
\* (restore_item, line 114): the tasks run one after the other before anything
\* else does, each entering self.sem if a slot is free and waiting on it if not
ProcessBatch ==
    /\ pc = "batches"
    /\ Len(tasks) < batch_num
    /\ LET n == batch_len(total_items, batch_num)
           admitted == entering(n, sems[sem].value)
       IN  /\ tasks' = Append(tasks, [sem |-> sem, size |-> n,
                                      waiting |-> n - admitted,
                                      running |-> admitted,
                                      done |-> 0, awaited |-> 0])
           /\ sems' = [sems EXCEPT ![sem].value = @ - admitted]
    /\ UNCHANGED <<now, deleted_items, batches, total_items, pc, batch_num,
                   adjustment_task, sem, current_concurrency, last_adjustment,
                   last_error_time, error_window, restored_count,
                   failed_count, faults>>

\* (a slip: release wakes nobody)
wake_up_none(waiting) == 0
\* Semaphore.release, called at the end of async with self.sem (line 114):
\* the number of waiters that release wakes and hands the slot to
wake_up_next(waiting) == IF waiting > 0 THEN 1 ELSE 0

\* Semaphore.release on semaphore s by a worker of batch k, and the worker's
\* end: the slot goes to the first waiter of s if there is one (_wake_up_next),
\* and back to s if not
Release(k, s) ==
    LET woken == IF tasks[k].sem = s THEN wake_up_next(tasks[k].waiting) ELSE 0
    IN  /\ tasks' = [tasks EXCEPT ![k].running = @ - 1 + woken,
                                  ![k].waiting = @ - woken,
                                  ![k].done = @ + 1]
        /\ sems' = [sems EXCEPT ![s].value = @ + 1 - woken]

\* a worker of batch k may return from the remote call
CanReturn(k) ==
    /\ k \in 1..Len(tasks)
    /\ tasks[k].running > 0
    /\ tasks[k].done - tasks[k].awaited < MaxLag

\* restore_item, lines 118-124: the call returns
RestoreItemOk(k) ==
    /\ CanReturn(k)
    /\ restored_count' = restored_count + 1
    /\ Release(k, release_target(k))
    /\ UNCHANGED <<now, deleted_items, batches, total_items, pc, batch_num,
                   adjustment_task, sem, current_concurrency, last_adjustment,
                   last_error_time, error_window, failed_count, faults>>

\* restore_item, lines 125-137: the call raises e
RestoreItemRaise(k, e) ==
    /\ CanReturn(k)
    /\ faults' = faults + 1
    /\ IF is_counted_failure(e)
       THEN /\ failed_count' = failed_count + 1
            /\ error_window' = deque_append(error_window, <<now, is_5xx_error(e)>>)
            /\ last_error_time' = IF is_5xx_error(e) THEN now ELSE last_error_time
       ELSE UNCHANGED <<failed_count, error_window, last_error_time>>
    /\ Release(k, release_target(k))
    /\ UNCHANGED <<now, deleted_items, batches, total_items, pc, batch_num,
                   adjustment_task, sem, current_concurrency, last_adjustment,
                   restored_count>>

\* the call raises e, in a run where at most MaxFaults calls raise
RestoreItemFail(k, e) ==
    /\ faults < MaxFaults
    /\ RestoreItemRaise(k, e)

\* (a slip: the task is left as it is)
cancel_not(task) == task
\* run_async, line 218: adjustment_task.cancel(); the task is suspended in
\* asyncio.sleep and never runs again
cancel(task) == "cancelled"

\* process_batch, lines 145-160: one completed task is consumed; with the last
\* one process_batch returns to run_async, lines 206-218, which moves to the
\* next batch or, after the last, cancels the controller and ends
ProcessBatchAwait ==
    /\ pc = "batches"
    /\ batch_num \in 1..Len(tasks)
    /\ tasks[batch_num].awaited < tasks[batch_num].done
    /\ tasks' = [tasks EXCEPT ![batch_num].awaited = @ + 1]
    \* line 155 (pbar.start_t != current_time holds but at the very start)
    /\ error_window' = clean_old(error_window, now)
    /\ IF batch_finished(tasks'[batch_num])
       THEN IF batch_num < num_batches(total_items)
            THEN /\ batch_num' = batch_num + 1
                 /\ UNCHANGED <<pc, adjustment_task>>
            ELSE /\ pc' = "done"
                 /\ adjustment_task' = cancel(adjustment_task)
                 /\ UNCHANGED batch_num
       ELSE UNCHANGED <<pc, batch_num, adjustment_task>>
    /\ UNCHANGED <<now, deleted_items, batches, total_items, sems, sem,
                   current_concurrency, last_adjustment, last_error_time,
                   restored_count, failed_count, faults>>

\* adjust_concurrency, lines 80-85: the task wakes from asyncio.sleep(1), at
\* some time, and skips the tick if the clock shows less than a second since
\* the last one
AdjustSkip ==
    /\ adjustment_task = "running"
    /\ now - last_adjustment < adjust_period
    /\ UNCHANGED vars

\* (a slip: recovery is tried before the error rate is looked at)
next_concurrency_recover_first(c, r, since) ==
    IF since > recovery_interval /\ c < max_concurrency
    THEN recover(c)
    ELSE IF rate_above_threshold(r) THEN backoff(c) ELSE c

\* the ceiling of the tick that finds ceiling c, error rate r and
\* since seconds since the last server error (lines 90-109)
next_concurrency(c, r, since) ==
    IF rate_above_threshold(r)
    THEN backoff(c)
    ELSE IF since > recovery_interval /\ c < max_concurrency
         THEN recover(c)
         ELSE c

\* adjust_concurrency, lines 87-111: one tick that is not skipped
AdjustConcurrency ==
    /\ adjustment_task = "running"
    /\ ~(now - last_adjustment < adjust_period)
    /\ LET r == get_error_rate(error_window, now)
           new == next_concurrency(current_concurrency, r, now - last_error_time)
       IN  /\ error_window' = clean_old(error_window, now)
           /\ IF new # current_concurrency
              THEN /\ current_concurrency' = new
                   /\ sems' = Append(sems, [cap |-> new, value |-> new])
                   /\ sem' = Len(sems) + 1
              ELSE UNCHANGED <<current_concurrency, sems, sem>>
    /\ last_adjustment' = now
    /\ UNCHANGED <<now, deleted_items, batches, total_items, pc, batch_num,
                   tasks, adjustment_task, last_error_time, restored_count,
                   failed_count, faults>>

Workers ==
    \E k \in 1..Len(tasks) :
        \/ RestoreItemOk(k)
        \/ \E e \in RestoreErrors : RestoreItemFail(k, e)

NextUpTo(horizon) ==
    \/ AdvanceTime(horizon)
    \/ RunEmpty
    \/ RunStart
    \/ ProcessBatch
    \/ Workers
    \/ ProcessBatchAwait
    \/ AdjustSkip
    \/ AdjustConcurrency

Next == NextUpTo(MaxTime)
NextLong == NextUpTo(MaxTimeLong)

Spec == Init /\ [][Next]_vars
SpecLong == InitLong /\ [][NextLong]_vars

\* ------------------------------------------- the controller on time
\* a tick of the controller is due
TickDue ==
    adjustment_task = "running" /\ now - last_adjustment >= adjust_period

\* run_async has a step to take: to start, to dispatch the batch, or to
\* consume a completed task
RunRunnable ==
    \/ pc = "start"
    \/ /\ pc = "batches"
       /\ IF Len(tasks) < batch_num THEN TRUE
          ELSE tasks[batch_num].awaited < tasks[batch_num].done

\* the clock advances in a run whose event loop is never held up for a
\* second: no second passes while a tick is due or run_async can take a step
AdvanceTimePaced(horizon) ==
    /\ ~RunRunnable
    /\ ~TickDue
    /\ AdvanceTime(horizon)

\* ----------------------------------------------------- SpecWindow
\* a run of NumItemsWindow items of which up to MaxFaultsWindow fail
InitWindow == InitWith({0, NumItemsWindow})

WorkersWindow ==
    \E k \in 1..Len(tasks) :
        \/ RestoreItemOk(k)
        \/ \E e \in RestoreErrors :
              faults < MaxFaultsWindow /\ RestoreItemRaise(k, e)

NextWindow ==
    \/ AdvanceTimePaced(MaxTimeWindow)
    \/ RunEmpty
    \/ RunStart
    \/ ProcessBatch
    \/ WorkersWindow
    \/ ProcessBatchAwait
    \/ AdjustSkip
    \/ AdjustConcurrency

SpecWindow == InitWindow /\ [][NextWindow]_vars

\* ---------------------------------------------------- SpecRecovery
\* a long run of NumItemsRecovery items of which up to MaxFaultsRecovery fail
InitRecovery == InitWith({0, NumItemsRecovery})

WorkersRecovery ==
    \E k \in 1..Len(tasks) :
        \/ RestoreItemOk(k)
        \/ \E e \in RestoreErrors :
              faults < MaxFaultsRecovery /\ RestoreItemRaise(k, e)

NextRecovery ==
    \/ AdvanceTimePaced(MaxTimeRecovery)
    \/ RunEmpty
    \/ RunStart
    \/ ProcessBatch
    \/ WorkersRecovery
    \/ ProcessBatchAwait
    \/ AdjustSkip
    \/ AdjustConcurrency

SpecRecovery == InitRecovery /\ [][NextRecovery]_vars

\* -------------------------------------------------------- SpecPlan
\* the listing of n items whose depths run through 1..MaxDepth in steps of a
\* from b
Listing(n, a, b) ==
    [i \in 1..n |-> [id |-> i, depth |-> 1 + ((a * i + b) % MaxDepth)]]

\* four blobs at depths 3, 1, 2, 1
ExampleListing ==
    <<[id |-> 1, depth |-> 3], [id |-> 2, depth |-> 1],
      [id |-> 3, depth |-> 2], [id |-> 4, depth |-> 1]>>

SmallListings(maxlen) ==
    {Listing(n, a, b) :
        n \in 0..maxlen, a \in 0..(MaxDepth - 1), b \in 0..(MaxDepth - 1)}
    \cup {ExampleListing}

LargeListings ==
    {Listing(n, 1, 0) : n \in (PlanLargeLen - 2)..PlanLargeLen}

\* run_async up to the batch loop, on a listing of either kind
InitPlan == InitListing(SmallListings(PlanMaxLen) \cup LargeListings)

NextPlan ==
    \/ RunEmpty
    \/ RunStart

SpecPlan == InitPlan /\ [][NextPlan]_vars

\* ---------------------------------------------------- SpecDispatch
\* a whole run on an explicit listing; the run takes less than a second, so
\* the clock does not move and every tick of the controller is skipped
InitDispatch == InitListing(SmallListings(DispatchMaxLen))

NextDispatch ==
    \/ RunEmpty
    \/ RunStart
    \/ ProcessBatch
    \/ Workers
    \/ ProcessBatchAwait
    \/ AdjustSkip

SpecDispatch == InitDispatch /\ [][NextDispatch]_vars

\* ------------------------------------------------------- SpecTally
\* a run of NumItemsTally items, shorter than a second, in which every call
\* may succeed or fail in any way
InitTally == InitWith({0, NumItemsTally})

WorkersTally ==
    \E k \in 1..Len(tasks) :
        \/ RestoreItemOk(k)
        \/ \E e \in RestoreErrors : RestoreItemRaise(k, e)

NextTally ==
    \/ RunEmpty
    \/ RunStart
    \/ ProcessBatch
    \/ WorkersTally
    \/ ProcessBatchAwait
    \/ AdjustSkip

SpecTally == InitTally /\ [][NextTally]_vars

\* ------------------------------------------------------ SpecFaulty
\* a run of NumItemsFaulty items in which every call may succeed or fail,
\* the controller ticking on time
InitFaulty == InitWith({0, NumItemsFaulty})

\* the server errors recorded in the window
ServerErrors == Len(SelectSeq(error_window, LAMBDA ev : ev[2]))

WorkersFaulty ==
    \E k \in 1..Len(tasks) :
        \/ RestoreItemOk(k)
        \/ \E e \in RestoreErrors :
              /\ (is_counted_failure(e) /\ is_5xx_error(e))
                    => ServerErrors < MaxServerFaulty
              /\ RestoreItemRaise(k, e)

NextFaulty ==
    \/ AdvanceTimePaced(MaxTimeFaulty)
    \/ RunEmpty
    \/ RunStart
    \/ ProcessBatch
    \/ WorkersFaulty
    \/ ProcessBatchAwait
    \/ AdjustSkip
    \/ AdjustConcurrency

SpecFaulty == InitFaulty /\ [][NextFaulty]_vars

\* ------------------------------------------------------ SpecOutage
\* a run of NumItemsOutage items during an outage of the service: every call
\* fails, with a server error or, while the window holds fewer than
\* MaxOtherOutage such failures, with another error; the run takes less than
\* a second, so the clock does not move
InitOutage == InitWith({0, NumItemsOutage})

\* the failures recorded in the window that were not server errors
OtherErrors == Len(error_window) - ServerErrors

WorkersOutage ==
    \E k \in 1..Len(tasks) : \E e \in RestoreErrors :
        /\ is_counted_failure(e)
        /\ ~is_5xx_error(e) => OtherErrors < MaxOtherOutage
        /\ RestoreItemRaise(k, e)

NextOutage ==
    \/ RunEmpty
    \/ RunStart
    \/ ProcessBatch
    \/ WorkersOutage
    \/ ProcessBatchAwait
    \/ AdjustSkip

SpecOutage == InitOutage /\ [][NextOutage]_vars

\* -------------------------------------------------------- SpecFair
\* the event loop runs every task that is ready, and every remote call
\* returns: run_async takes its steps, and some call in flight returns, as
\* long as they can; nothing is asked of the clock or of the controller
RunSteps ==
    \/ RunEmpty
    \/ RunStart
    \/ ProcessBatch
    \/ ProcessBatchAwait

NextFair ==
    \/ AdvanceTimePaced(MaxTimeFair)
    \/ RunSteps
    \/ Workers
    \/ AdjustSkip
    \/ AdjustConcurrency

SpecFair ==
    Init /\ [][NextFair]_vars /\ WF_vars(RunSteps) /\ WF_vars(Workers)

\* ------------------------------------------------- derived quantities
\* the sum of field fld over the task sets ts
RECURSIVE SumField(_, _)
SumField(ts, fld) ==
    IF ts = <<>> THEN 0 ELSE ts[1][fld] + SumField(Tail(ts), fld)

\* workers admitted through a semaphore and not yet released
Admitted == SumField(tasks, "running")
\* workers blocked in Semaphore.acquire
Blocked == SumField(tasks, "waiting")
\* restore calls that have completed
Completed == SumField(tasks, "done")

\* workers admitted through semaphore s and not yet released
HoldersOn(s) ==
    SumField(SelectSeq(tasks, LAMBDA t : t.sem = s), "running")

\* the step is a tick of the controller that was not skipped
IsTick == last_adjustment' # last_adjustment

\* the step admits a worker: a blocked one is let in, or a new batch starts
IsAdmission ==
    \/ Blocked' < Blocked
    \/ Len(tasks') > Len(tasks) /\ tasks'[Len(tasks')].running > 0

\* a worker is blocked although fewer than current_concurrency are admitted
Starved == Blocked > 0 /\ Admitted < current_concurrency

\* -------------------------------------------------------------- C1
\* C1: whenever a worker is admitted through the gate, the workers admitted
\* and not yet released, the new one included, number at most
\* current_concurrency at that instant.
C1_AdmittedWithinCeiling ==
    [][IsAdmission => Admitted' <= current_concurrency']_vars

\* -------------------------------------------------------------- C2
\* C2: in every reachable state min_concurrency <= current_concurrency <=
\* max_concurrency.
C2_CeilingInRange ==
    min_concurrency <= current_concurrency /\ current_concurrency <= max_concurrency

\* the floor was applied: the ceiling sits at min after a halving of 12
C2_Witness ==
    /\ current_concurrency = min_concurrency
    /\ Len(sems) >= 2
    /\ sems[Len(sems) - 1].cap = 12

\* -------------------------------------------------------------- C3
\* C3: a tick that is not skipped and finds the error rate above 0.10 sets
\* the ceiling to max(floor(c * 0.5), min), whatever the time since the last
\* server error, and never increases it.
C3_BackoffOnHighErrorRate ==
    [][(IsTick /\ rate_above_threshold(get_error_rate(error_window, now)))
        => current_concurrency' = Max(current_concurrency \div 2, min_concurrency)]_vars

\* a tick has just halved 100 although the recovery interval had elapsed
C3_Witness ==
    /\ current_concurrency = 50
    /\ last_adjustment = now
    /\ now - last_error_time > recovery_interval
    /\ rate_above_threshold(get_error_rate(error_window, now))

\* -------------------------------------------------------------- C4
\* C4 as stated: a tick that is not skipped, finds the error rate at most
\* 0.10, more than recovery_interval since the last server error and the
\* ceiling c below max, sets the ceiling to min(ceil(c * 1.2), max).
C4_RecoverCeil ==
    [][(/\ IsTick
        /\ ~rate_above_threshold(get_error_rate(error_window, now))
        /\ now - last_error_time > recovery_interval
        /\ current_concurrency < max_concurrency)
        => current_concurrency' =
             Min((current_concurrency * 12 + 9) \div 10, max_concurrency)]_vars

\* C4 amended: under the same conditions the ceiling becomes
\* min(floor(c * 1.2), max).
C4_RecoverFloor ==
    [][(/\ IsTick
        /\ ~rate_above_threshold(get_error_rate(error_window, now))
        /\ now - last_error_time > recovery_interval
        /\ current_concurrency < max_concurrency)
        => current_concurrency' =
             Min((current_concurrency * 12) \div 10, max_concurrency)]_vars

\* a recovery tick has just raised 144 to 172, where floor and ceil differ
C4_Witness ==
    /\ current_concurrency = 172
    /\ last_adjustment = now
    /\ sems[Len(sems) - 1].cap = 144

\* -------------------------------------------------------------- C5
\* C5: a worker stays blocked only while at least current_concurrency workers
\* are admitted; a worker blocked with fewer admitted is let in no later than
\* one controller tick after the ceiling changed, so no tick both starts and
\* ends with such a worker.
C5_BlockedOnlyAtCeiling ==
    [][(IsTick /\ Starved) => ~Starved']_vars

\* -------------------------------------------------------------- C6
\* C6: no item of a later batch is dispatched until every item of the batch
\* before it has completed; items of two batches are never in flight together.
C6_BatchesSequential ==
    \A k \in 1..Len(tasks) :
        k < Len(tasks) =>
            /\ tasks[k].done = tasks[k].size
            /\ tasks[k].running = 0
            /\ tasks[k].waiting = 0

\* the second batch is in flight
C6_Witness ==
    /\ Len(tasks) >= 2
    /\ tasks[2].running > 0
    /\ tasks[1].done = tasks[1].size

\* -------------------------------------------------------------- C7
\* C7: every admitted worker returns its slot exactly once, to the semaphore
\* it entered: for every semaphore, free slots plus holders equal its
\* capacity, so with no restore call in flight no slot is held.
C7_SlotsReturned ==
    \A s \in 1..Len(sems) :
        /\ sems[s].value + HoldersOn(s) = sems[s].cap
        /\ (Admitted = 0 /\ Blocked = 0) => sems[s].value = sems[s].cap

\* a worker of the first batch failed, and so left the gate, after the
\* controller had replaced the semaphore it entered
C7_Witness ==
    /\ Len(tasks) = 1
    /\ tasks[1].sem # sem
    /\ error_window # <<>>
    /\ error_window[Len(error_window)][1] > last_adjustment

\* -------------------------------------------------------------- C8
\* C8: a restore call that fails with a conflict leaves failed_count,
\* restored_count, the error window and last_error_time unchanged.
C8_ConflictChangesNothing ==
    [][(/\ faults' # faults
        /\ \E k \in 1..Len(tasks) :
             \E e \in {x \in RestoreErrors : "BlobAlreadyExists" \in x} :
                RestoreItemFail(k, e))
        => UNCHANGED <<failed_count, restored_count, error_window,
                       last_error_time>>]_vars

\* calls have raised and none was counted: they were conflicts
C8_Witness ==
    /\ faults = MaxFaults
    /\ failed_count = 0
    /\ Completed >= faults

\* -------------------------------------------------------------- C9
\* C9 as stated: every completed restore call adds exactly one event to the
\* error window.
C9_EveryCallRecorded ==
    [][(Completed' = Completed + 1)
        => Len(error_window') = Len(error_window) + 1]_vars

\* error window w2 is w with event ev appended at the tail, the oldest event
\* dropped if w was full
C9_Gained(w, w2, ev) ==
    /\ Len(w2) = Min(Len(w) + 1, error_window_maxlen)
    /\ w2[Len(w2)] = ev
    /\ \A i \in 1..(Len(w2) - 1) : w2[i] = w[i + Len(w) + 1 - Len(w2)]

\* C9 amended: a completed restore call that failed with an error other than
\* a conflict appends exactly one event (the time, whether it is a server
\* error) to the error window, dropping the oldest if it held 100; a call
\* that succeeded or failed with a conflict leaves the window unchanged.
C9_FailuresRecorded ==
    [][(restored_count' # restored_count \/ faults' # faults) =>
         \A k \in 1..Len(tasks) :
            /\ RestoreItemOk(k) => error_window' = error_window
            /\ \A e \in RestoreErrors :
                 RestoreItemFail(k, e) =>
                   IF "BlobAlreadyExists" \in e
                   THEN error_window' = error_window
                   ELSE C9_Gained(error_window, error_window',
                                  <<now, e \cap error_patterns # {}>>)]_vars

\* calls have succeeded, one has failed with a server error and was recorded
C9_Witness ==
    /\ restored_count > 0
    /\ failed_count = 1
    /\ Len(error_window) = 1
    /\ error_window[1][2]

\* ------------------------------------------------------------- C10
\* the events of w no older than window_duration at time t
C10_Fresh(w, t) == {i \in 1..Len(w) : t - w[i][1] <= window_duration}

\* C10: an event recorded at t0 counts in neither the numerator nor the
\* denominator of the error rate at any time later than t0 + window_duration:
\* at every time the rate is that of the events no older than the duration.
C10_ExpiredEventsExcluded ==
    LET fresh == C10_Fresh(error_window, now)
    IN  get_error_rate(error_window, now) =
          IF fresh = {} THEN <<0, 0>>
          ELSE <<Cardinality({i \in fresh : error_window[i][2]}),
                 Cardinality(fresh)>>

\* the window still holds a server error that has expired
C10_Witness ==
    /\ error_window # <<>>
    /\ error_window[1][2]
    /\ now - error_window[1][1] > window_duration

\* ------------------------------------------------------------- C11
\* C11: the error rate is 0.0 when the window holds no unexpired event, and
\* otherwise the number of unexpired server errors over the number of
\* unexpired events; the first never exceeds the second, so the rate lies
\* between 0 and 1.
C11_RateIsServerShare ==
    LET r == get_error_rate(error_window, now)
        unexpired == SelectSeq(error_window,
                               LAMBDA ev : now - ev[1] <= window_duration)
        server == SelectSeq(unexpired, LAMBDA ev : ev[2])
    IN  /\ (unexpired = <<>>) => r = <<0, 0>>
        /\ (unexpired # <<>>) => r = <<Len(server), Len(unexpired)>>
        /\ 0 <= r[1]
        /\ r[1] <= r[2]

\* of two events kept in the window the older, a server error, has expired
\* and the other, not a server error, has not
C11_Witness ==
    /\ Len(error_window) = 2
    /\ error_window[1][2]
    /\ now - error_window[1][1] > window_duration
    /\ ~error_window[2][2]
    /\ now - error_window[2][1] <= window_duration

\* ------------------------------------------------------------- C12
\* the recoveries that take the ceiling from c to max_concurrency
RECURSIVE C12_Climb(_)
C12_Climb(c) == IF c >= max_concurrency THEN 0 ELSE 1 + C12_Climb(recover(c))

\* the ticks after a server error by which the ceiling is back at the
\* maximum: those that see the error in the window, then the whole climb
C12_SettleTicks == window_duration + C12_Climb(min_concurrency)

\* the controller has made every tick that was due, the run has lasted long
\* enough for the first climb, and the last server error, if there was one,
\* is at least C12_SettleTicks old
C12_Settled ==
    /\ adjustment_task = "running"
    /\ ~TickDue
    /\ now - StartTime >= C12_Climb(initial_concurrency)
    /\ last_error_time # 0 => now - last_error_time >= C12_SettleTicks

\* one tick of the scenario: down while the error rate is above the
\* threshold, until the minimum; strictly up once the window is clear and the
\* recovery interval has passed, until the maximum; then no change
C12_TickMoves ==
    LET r == get_error_rate(error_window, now)
        c == current_concurrency
        quiet == now - last_error_time > recovery_interval
    IN  IsTick =>
          /\ (rate_above_threshold(r) /\ c > min_concurrency)
                => current_concurrency' < c
          /\ (rate_above_threshold(r) /\ c = min_concurrency)
                => current_concurrency' = c
          /\ (~rate_above_threshold(r) /\ quiet /\ c < max_concurrency)
                => current_concurrency' > c
          /\ (~rate_above_threshold(r) /\ c = max_concurrency)
                => current_concurrency' = c

\* C12: from any ceiling the controller, ticking every second, lowers it on
\* successive ticks down to min_concurrency while the error rate is above
\* 0.10; once the errors have left the window and the recovery interval has
\* passed it raises it strictly on every tick, so that C12_SettleTicks ticks
\* after the last server error the ceiling is max_concurrency and stays there;
\* it never leaves [min_concurrency, max_concurrency].
C12_FallsThenRecovers ==
    /\ [](/\ current_concurrency >= min_concurrency
          /\ current_concurrency <= max_concurrency
          /\ C12_Settled => current_concurrency = max_concurrency)
    /\ [][C12_TickMoves]_vars

\* after a server error the ceiling is back at the maximum, and has been
\* for a tick
C12_Witness ==
    /\ adjustment_task = "running"
    /\ last_error_time >= StartTime
    /\ now - last_error_time > C12_SettleTicks
    /\ current_concurrency = max_concurrency

\* ------------------------------------------------------------- C13
\* the concatenation of the sequences of ss
RECURSIVE C13_Concat(_)
C13_Concat(ss) == IF ss = <<>> THEN <<>> ELSE ss[1] \o C13_Concat(Tail(ss))

\* n div 3 clamped to [10, 1000]
C13_Clamp(n) ==
    IF n \div 3 < 10 THEN 10 ELSE IF n \div 3 > 1000 THEN 1000 ELSE n \div 3

C14_Depths(s) == [i \in 1..Len(s) |-> s[i].depth]

\* t holds the items of s, each once
C14_Permutation(s, t) ==
    /\ Len(t) = Len(s)
    /\ \A i \in 1..Len(s) : \E j \in 1..Len(t) : t[j] = s[i]
    /\ \A i, j \in 1..Len(t) : t[i] = t[j] => i = j

\* run_async sorts: the list it goes on with is the listing reordered by
\* depth, shallowest first
C14_SortStep ==
    (pc = "start" /\ pc' = "batches") =>
        /\ C14_Permutation(deleted_items, deleted_items')
        /\ \A i \in 1..(Len(deleted_items') - 1) :
              deleted_items'[i].depth <= deleted_items'[i + 1].depth
        /\ C14_Depths(deleted_items) = <<3, 1, 2, 1>>
              => C14_Depths(deleted_items') = <<1, 1, 2, 3>>

\* the k-th set of tasks is the k-th batch; no item of a batch is deeper than
\* an item of the next; when a batch has been dispatched every item of the
\* batches before it has completed
C14_BatchesInDepthOrder ==
    /\ \A k \in 1..(Len(batches) - 1) :
          \A i \in 1..Len(batches[k]) : \A j \in 1..Len(batches[k + 1]) :
              batches[k][i].depth <= batches[k + 1][j].depth
    /\ Len(tasks) <= Len(batches)
    /\ \A k \in 1..Len(tasks) :
          /\ tasks[k].size = Len(batches[k])
          /\ \A j \in 1..(k - 1) : tasks[j].done = Len(batches[j])

\* C14: the items are dispatched in order of depth, shallowest first: the list
\* dispatched is a permutation of the listing sorted by depth (depths
\* 3, 1, 2, 1 go out as 1, 1, 2, 3), every item of a batch is no deeper than
\* every item of the next batch, and no item is dispatched before every
\* strictly shallower item of an earlier batch has completed.
C14_ShallowestFirst ==
    /\ []C14_BatchesInDepthOrder
    /\ [][C14_SortStep]_vars

\* the third batch has been dispatched and is deeper than the first, which
\* was listed with a deeper item first
C14_Witness ==
    /\ Len(tasks) = 3
    /\ batches[1][1].depth < batches[3][1].depth
    /\ batches[1][1].id # 1

\* ------------------------------------------------------------- C15
\* the calls that failed with a conflict
C15_Conflicts == faults - failed_count

\* every item dispatched is waiting for a slot, in its call, or through with
\* it; every call that has returned is tallied once; at the end of the run
\* every listed item has had its call
C15_EveryItemTallied ==
    /\ \A k \in 1..Len(tasks) :
          tasks[k].size = tasks[k].waiting + tasks[k].running + tasks[k].done
    /\ restored_count + failed_count + C15_Conflicts = Completed
    /\ C15_Conflicts >= 0
    /\ pc = "done" =>
          /\ Completed = total_items
          /\ restored_count + failed_count + C15_Conflicts = total_items

\* a step in which a call returns moves one tally by one: restored_count for
\* a success, failed_count for a failure that is not a conflict, neither for
\* a conflict; no step lowers a counter, and a failure leaves the run where
\* it is
C15_OneTallyPerCall ==
    /\ restored_count' >= restored_count
    /\ failed_count' >= failed_count
    /\ \A k \in 1..Len(tasks) :
          /\ RestoreItemOk(k) =>
                /\ restored_count' = restored_count + 1
                /\ failed_count' = failed_count
          /\ \A e \in RestoreErrors : RestoreItemRaise(k, e) =>
                /\ restored_count' = restored_count
                /\ failed_count' =
                      failed_count + (IF "BlobAlreadyExists" \in e THEN 0 ELSE 1)
                /\ pc' = pc
                /\ batch_num' = batch_num
                /\ tasks'[k].running + tasks'[k].waiting =
                      tasks[k].running + tasks[k].waiting - 1

\* C15: a failing item aborts neither its batch nor the run, and every item
\* is tallied: whatever the outcomes of the calls, each item is attempted
\* once, the counters never decrease, and when the run is over restored_count
\* is the number of successes, failed_count the number of failures other than
\* conflicts, and restored_count + failed_count + conflicts the number of
\* items listed.
C15_FailuresTalliedNotFatal ==
    /\ []C15_EveryItemTallied
    /\ [][(Completed' # Completed) => C15_OneTallyPerCall]_vars

\* a run of two batches is over, with successes, conflicts, server errors and
\* other failures
C15_Witness ==
    /\ pc = "done"
    /\ Len(tasks) = 2
    /\ restored_count > 0
    /\ C15_Conflicts > 0
    /\ \E i, j \in 1..Len(error_window) :
          error_window[i][2] /\ ~error_window[j][2]

\* ------------------------------------------------------------- C16
\* the failures that are neither conflicts nor server errors
C16_OtherErrors ==
    {e \in RestoreErrors :
        "BlobAlreadyExists" \notin e /\ e \cap error_patterns = {}}

\* the window w without the failures that are not server errors
C16_WithoutOther(w) == SelectSeq(w, LAMBDA ev : ev[2])

\* a tick now would lower the ceiling if the window were w
C16_Decreases(w) ==
    next_concurrency(current_concurrency, get_error_rate(w, now),
                     now - last_error_time) < current_concurrency

\* a tick now would raise the ceiling if the window were w
C16_Increases(w) ==
    next_concurrency(current_concurrency, get_error_rate(w, now),
                     now - last_error_time) > current_concurrency

\* C16 as claimed: a failure that is neither a conflict nor a server error is
\* counted in failed_count but never updates last_error_time, and the other
\* failures of a run never change whether a tick lowers the ceiling: the tick
\* lowers it exactly if it would without them.
C16_OtherNeverChangesDecrease ==
    [][IsTick => (C16_Decreases(error_window)
                    <=> C16_Decreases(C16_WithoutOther(error_window)))]_vars

\* a call fails with an error of the other class
C16_OtherCounted ==
    \A k \in 1..Len(tasks) : \A e \in C16_OtherErrors :
        RestoreItemRaise(k, e) =>
            /\ failed_count' = failed_count + 1
            /\ last_error_time' = last_error_time

\* a tick lowers the ceiling only if it would without the other failures,
\* and raises it if it would without them
C16_OtherNeverLowers ==
    IsTick =>
        /\ (current_concurrency' < current_concurrency)
              <=> C16_Decreases(error_window)
        /\ C16_Decreases(error_window)
              => C16_Decreases(C16_WithoutOther(error_window))
        /\ C16_Increases(C16_WithoutOther(error_window))
              => C16_Increases(error_window)

\* C16 amended: a failure that is neither a conflict nor a server error is
\* counted in failed_count and never updates last_error_time, so it does not
\* delay recovery, and the other failures of a run never make a tick lower
\* the ceiling that would not lower it without them; they can keep it from
\* lowering it, since they count in the denominator of the error rate.
C16_OtherNeverCausesDecrease ==
    /\ [][(faults' # faults) => C16_OtherCounted]_vars
    /\ [][C16_OtherNeverLowers]_vars

\* a tick has left the ceiling alone with one server error among ten
\* unexpired failures in the window
C16_Witness ==
    /\ last_adjustment > StartTime
    /\ current_concurrency = initial_concurrency
    /\ Len(error_window) = 10
    /\ Len(C16_WithoutOther(error_window)) = 1
    /\ last_error_time = StartTime
    /\ error_window[1][1] = StartTime

\* ------------------------------------------------------------- C17
\* every call of every batch of the listing has completed and been consumed
C17_AllBatchesOver ==
    /\ Len(tasks) = num_batches(total_items)
    /\ \A k \in 1..Len(tasks) :
          tasks[k].done = tasks[k].size /\ tasks[k].awaited = tasks[k].size

\* the controller is cancelled in the step that ends the run and at no other
\* time, stays cancelled, and the ceiling does not change once the run is over
C17_CancelStep ==
    /\ (adjustment_task' = "cancelled" /\ adjustment_task # "cancelled")
          => (adjustment_task = "running" /\ pc = "batches" /\ pc' = "done")
    /\ adjustment_task = "cancelled" => adjustment_task' = "cancelled"
    /\ pc = "done" =>
          /\ current_concurrency' = current_concurrency
          /\ sem' = sem
          /\ pc' = "done"

\* C17 as claimed: in every run the controller loop is cancelled exactly
\* once, at run completion; it is never cancelled while a batch is still
\* executing, and no ceiling change occurs after the run has completed.
C17_CancelledInEveryRun ==
    /\ [](pc = "done" => adjustment_task = "cancelled")
    /\ [](adjustment_task = "cancelled" => (pc = "done" /\ C17_AllBatchesOver))
    /\ [][C17_CancelStep]_vars

\* C17 amended: in every run that lists at least one item the controller
\* loop is cancelled exactly once, at run completion (a run that lists
\* nothing ends without having started it); it is never cancelled while a
\* batch is still executing, and no ceiling change occurs after the run has
\* completed.
C17_CancelledOnceStarted ==
    /\ []((pc = "done" /\ total_items > 0) => adjustment_task = "cancelled")
    /\ []((pc = "done" /\ total_items = 0) => adjustment_task = "none")
    /\ [](adjustment_task = "cancelled" => (pc = "done" /\ C17_AllBatchesOver))
    /\ [][C17_CancelStep]_vars

\* the run is over, after the ceiling was changed, and a second has passed
\* since the last tick
C17_Witness ==
    /\ pc = "done"
    /\ adjustment_task = "cancelled"
    /\ current_concurrency # initial_concurrency
    /\ now - last_adjustment >= adjust_period

\* ------------------------------------------------------------- C18
\* the step dispatches a batch: its tasks are bound to the semaphore of the
\* moment, whose capacity is the ceiling of the moment
C18_DispatchStep ==
    Len(tasks') > Len(tasks) =>
        LET t == tasks'[Len(tasks')]
        IN  /\ t.sem = sem
            /\ sems[sem].cap = current_concurrency
            /\ t.running <= current_concurrency
            /\ t.waiting = t.size - t.running
            /\ t.waiting > 0 => t.running = current_concurrency

\* the calls of a batch in flight are never more than the capacity of the
\* semaphore the batch was dispatched with, which is the ceiling as long as
\* no tick has changed it
C18_BatchWithinItsCeiling ==
    \A k \in 1..Len(tasks) :
        /\ tasks[k].running <= sems[tasks[k].sem].cap
        /\ tasks[k].sem = sem => tasks[k].running <= current_concurrency

\* C18: the dispatch of the next batch observes the updated capacity: every
\* item of a batch dispatched after a ceiling change is gated by the ceiling
\* in effect when the batch is dispatched, so as long as the ceiling does not
\* change while the batch executes its calls in flight never exceed
\* current_concurrency.
C18_NextBatchSeesNewCeiling ==
    /\ []C18_BatchWithinItsCeiling
    /\ [][C18_DispatchStep]_vars

\* the second batch was dispatched after a ceiling change and fills the new
\* ceiling, the rest of it waiting
C18_Witness ==
    /\ Len(tasks) = 2
    /\ sem # 1
    /\ tasks[2].sem = sem
    /\ tasks[2].waiting > 0
    /\ tasks[2].running = current_concurrency

\* ------------------------------------------------------------- C19
\* the window never holds more than 100 events, and the error rate is over
\* at most 100 events
C19_AtMostHundred ==
    /\ Len(error_window) <= 100
    /\ get_error_rate(error_window, now)[2] <= 100

\* a failure is recorded: the new event goes to the end of the window, and
\* if the window was full its oldest event goes
C19_RecordStep ==
    (failed_count' # failed_count) =>
        LET kept == IF Len(error_window) >= 100
                    THEN SubSeq(error_window, 2, Len(error_window))
                    ELSE error_window
        IN  /\ Len(error_window') = Len(kept) + 1
            /\ SubSeq(error_window', 1, Len(kept)) = kept
            /\ error_window'[Len(kept) + 1][1] = now

\* C19: whatever the elapsed time, the window never holds more than 100
\* events; recording into a full window evicts the oldest event, so the error
\* rate is over at most the 100 most recent unexpired events.
C19_WindowCapped ==
    /\ []C19_AtMostHundred
    /\ [][C19_RecordStep]_vars

\* a failure that was not a server error was recorded into a window full of
\* server errors: the window is still full, and ends with it
C19_Witness ==
    /\ failed_count > error_window_maxlen
    /\ Len(error_window) = error_window_maxlen
    /\ ~error_window[Len(error_window)][2]
    /\ error_window[1][2]

\* ------------------------------------------------------------- C20
\* C20: when the event loop is fair and every restore call returns, the run
\* ends without deadlock, whenever the ticks replace the semaphore: every
\* worker that waits for a slot is admitted, every batch completes, and the
\* run terminates.
C20_RunTerminates ==
    /\ <>(/\ pc = "done"
          /\ Len(tasks) = num_batches(total_items)
          /\ \A k \in 1..Len(tasks) : tasks[k].done = tasks[k].size)
    /\ (Blocked > 0) ~> (Blocked = 0)

\* workers wait on a semaphore that a tick has replaced
C20_Witness ==
    /\ Len(tasks) >= 1
    /\ tasks[Len(tasks)].waiting > 0
    /\ tasks[Len(tasks)].sem # sem

====
